---- MODULE Spec2Model ----
(***************************************************************************)
(* The Sparkify data-lake ETL (src/etl.py): two raw JSON sources, the song *)
(* catalog and the activity log, are turned into the star schema songs,    *)
(* artists, users, time and songplays and written as parquet tables.       *)
(*                                                                         *)
(* A dataframe is a sequence of rows, a row is a record.  Spark promises   *)
(* no order for the rows read from a glob of files, so a source tree is a  *)
(* bag of files; it is held as a sequence in one canonical order.          *)
(* SQL NULL is NULL in a string column and NULL_INT in a numeric column.   *)
(***************************************************************************)
EXTENDS Integers, Sequences, FiniteSets, TLC

VARIABLES catalog, log, input_data, output_data, pc, staging_songs,
          staging_logs, disk, ops, run, prev

vars == <<catalog, log, input_data, output_data, pc, staging_songs,
          staging_logs, disk, ops, run, prev>>

\* ------------------------------------------------------------- bounds
\* files in the song tree, lines in the log tree, partitions of a dataframe
MaxCatalog == 2
MaxLog == 2
MaxPartitions == 2

\* --------------------------------------------------------------- NULLs
NULL == "null"
NULL_INT == -1

\* ------------------------------------------------------------- helpers
RECURSIVE SetToSeq(_)
SetToSeq(S) ==
    IF S = {} THEN <<>>
    ELSE LET x == CHOOSE y \in S : TRUE IN <<x>> \o SetToSeq(S \ {x})

\* the bags of at most n elements of S, each as a sequence in canonical order
BagsOf(S, n) ==
    LET T == SetToSeq(S)
    IN  UNION { { [i \in 1..k |-> T[ix[i]]] :
                    ix \in { f \in [1..k -> 1..Len(T)] :
                               \A i \in 1..k : i < k => f[i] <= f[i + 1] } } :
                k \in 0..n }

Range(s) == { s[i] : i \in 1..Len(s) }

\* how many rows of dataframe s equal v
Count(s, v) == Cardinality({ i \in 1..Len(s) : s[i] = v })

RECURSIVE LexLeq(_, _)
LexLeq(a, b) ==
    IF a = <<>> \/ b = <<>> THEN a = <<>>
    ELSE Head(a) < Head(b) \/ (Head(a) = Head(b) /\ LexLeq(Tail(a), Tail(b)))

\* ------------------------------------------------- the raw source trees
\* one file of the song tree: malformed JSON, or one JSON object
SongJson(sid, title, aname, year) ==
    [artist_id |-> "A1", artist_latitude |-> NULL_INT, artist_location |-> "X",
     artist_longitude |-> NULL_INT, artist_name |-> aname, duration |-> 180,
     num_songs |-> 1, song_id |-> sid, title |-> title, year |-> year]

SongFile(bad, json) == [malformed |-> bad, json |-> json]

CatalogFiles ==
    { SongFile(FALSE, SongJson("S1", t, n, y)) :
        t \in {"T1", "T2"}, n \in {"N1", "N2"}, y \in {0, 2000} }
    \cup { SongFile(FALSE, SongJson("S2", "T1", "N1", y)) : y \in {2000, NULL_INT} }
    \cup { SongFile(TRUE, SongJson("S1", "T1", "N1", 2000)) }

JoinSongFiles ==
    { SongFile(FALSE, SongJson("S1", "T1", "N1", 2000)),
      SongFile(FALSE, SongJson("S2", "T1", "N2", 0)),
      SongFile(FALSE, SongJson("S1", "T2", "N1", 2000)),
      SongFile(FALSE, SongJson("S2", NULL, "N1", 2000)) }

\* one line of the log tree
LogJson(uid, level, first, page, song, ts) ==
    [artist |-> NULL, auth |-> "Logged In", firstName |-> first, gender |-> "F",
     itemInSession |-> 0, lastName |-> "L", length |-> NULL_INT, level |-> level,
     location |-> "X", method |-> "PUT", page |-> page, registration |-> NULL_INT,
     sessionId |-> 100, song |-> song, status |-> 200, ts |-> ts,
     userAgent |-> "UA", userId |-> uid]

LogLine(bad, json) == [malformed |-> bad, json |-> json]

\* epoch milliseconds: 00:00:01 sharp, and 1 day 1 h 1 min 1 s 1 ms
TsValues == {1000, 90061001}

UserLogLines ==
    { LogLine(FALSE, LogJson("1", l, f, p, NULL, t)) :
        l \in {"free", "paid"}, f \in {"Ann", "Bob"},
        p \in {"NextSong", "Home"}, t \in TsValues }
    \cup { LogLine(FALSE, LogJson("2", "free", "Ann", "NextSong", NULL, t)) :
             t \in TsValues }
    \cup { LogLine(FALSE, LogJson(NULL, "free", "Ann", "NextSong", NULL, 1000)),
           LogLine(FALSE, LogJson("1", "free", "Ann", NULL, NULL, 90061001)),
           LogLine(FALSE, LogJson("1", "free", "Ann", "NextSong", NULL, NULL_INT)),
           LogLine(TRUE, LogJson("1", "free", "Ann", "NextSong", NULL, 1000)) }

JoinLogLines ==
    { LogLine(FALSE, LogJson("1", "free", "Ann", "NextSong", "T1", 1000)),
      LogLine(FALSE, LogJson("1", "free", "Ann", "NextSong", NULL, 1000)),
      LogLine(FALSE, LogJson("1", "free", "Ann", "NextSong", "t1", 1000)),
      LogLine(FALSE, LogJson("1", "free", "Ann", "Home", "T1", 90061001)) }

\* --------------------------------------------- Schema Conformance Loader
\* spark.read.json(schema, mode='DROPMALFORMED'): a malformed record is
\* dropped, an absent field is NULL
DropMalformed(files) ==
    LET ok == SelectSeq(files, LAMBDA f : ~f.malformed)
    IN  [i \in 1..Len(ok) |-> ok[i].json]

get_song_data_df(tree) == DropMalformed(tree)

get_log_data_df(tree) == DropMalformed(tree)

\* ------------------------------------------------------ Temporal Enricher
\* datetime.fromtimestamp(t / 1000.0) as <<year, month, day, hour, minute,
\* second, microsecond>>, in UTC; every ts of the model lies in January 1970.
\* The column holds the datetime the lambda returns: the udf declares no
\* return type, and how the engine stores such a result is not in etl.py.
get_timestamp(t) ==
    LET sec == t \div 1000
        days == sec \div 86400
        rest == sec % 86400
    IN  <<1970, 1, days + 1, rest \div 3600, (rest % 3600) \div 60, rest % 60,
          (t % 1000) * 1000>>

\* str(x) of a datetime: "Y-M-D h:m:s", with ".ffffff" only when the
\* microsecond is not 0; the string is held as the tuple of its numbers
get_datetime(x) == IF x[7] = 0 THEN SubSeq(x, 1, 6) ELSE x

\* the Python lambda is called with None for a NULL ts and raises TypeError
UdfRaises(df) == \E i \in 1..Len(df) : df[i].ts = NULL_INT

enrich_log_data(df) ==
    [i \in 1..Len(df) |->
        LET timestamp == IF df[i].ts = NULL_INT THEN <<>> ELSE get_timestamp(df[i].ts)
        IN  [r \in DOMAIN df[i] \cup {"timestamp", "start_time"} |->
                IF r = "timestamp" THEN timestamp
                ELSE IF r = "start_time"
                     THEN IF timestamp = <<>> THEN <<>> ELSE get_datetime(timestamp)
                     ELSE df[i][r]]]

NoFilter(df) == df

FilterNextSong(df) == SelectSeq(df, LAMBDA r : r.page = "NextSong")

\* ----------------------------------------- Song/Artist Dimension Builder
\* songs.filter(songs.year != 0): a NULL year compares to NULL, not to true
AnyYear(y) == TRUE

YearIsValid(y) == y # NULL_INT /\ y # 0

SongRow(r) ==
    [song_id |-> r.song_id, song_title |-> r.title, artist_id |-> r.artist_id,
     year |-> r.year, duration |-> r.duration]

songs_table(df) == { s \in { SongRow(df[i]) : i \in 1..Len(df) } : YearIsValid(s.year) }

ArtistRow(r) ==
    [artist_id |-> r.artist_id, artist_name |-> r.artist_name,
     artist_location |-> r.artist_location, artist_latitude |-> r.artist_latitude,
     artist_longitude |-> r.artist_longitude]

artists_table(df) == { ArtistRow(df[i]) : i \in 1..Len(df) }

\* ------------------------------------------------ User Dimension Resolver
\* SELECT userId, MAX(timestamp) AS maxtimestamp FROM staging_logs
\* GROUP BY userId, page
MaxTimestamp(S) == CHOOSE m \in S : \A x \in S : LexLeq(x, m)

GroupByUserIdPage(df) ==
    { [userId |-> k[1],
       maxtimestamp |-> MaxTimestamp({ df[i].timestamp :
                           i \in { j \in 1..Len(df) :
                                     <<df[j].userId, df[j].page>> = k } })] :
        k \in { <<df[i].userId, df[i].page>> : i \in 1..Len(df) } }

UserRow(r) ==
    [userId |-> r.userId, level |-> r.level, firstName |-> r.firstName,
     lastName |-> r.lastName, gender |-> r.gender]

\* the ON clause; NULL = NULL is not true
UsersJoinCondition(l, g) ==
    /\ l.userId # NULL /\ g.userId # NULL
    /\ l.userId = g.userId
    /\ l.timestamp = g.maxtimestamp

users_join(df) ==
    { UserRow(df[i]) :
        i \in { j \in 1..Len(df) :
                  \E g \in GroupByUserIdPage(df) : UsersJoinCondition(df[j], g) } }

\* users.dropDuplicates(['userId', 'level']) keeps one row of each key, the
\* first the engine meets; after the join's shuffle that is any one of them.
\* The operator is the set of the tables it can return.
NoDropDuplicates(rows) == {rows}

dropDuplicates(rows) ==
    LET keys == { <<r.userId, r.level>> : r \in rows }
    IN  { { f[k] : k \in keys } :
            f \in { g \in [keys -> rows] :
                      \A k \in keys : <<g[k].userId, g[k].level>> = k } }

\* ------------------------------------------------- Time Dimension Builder
\* hour(), day(), weekofyear(), month(), year(), weekday() of the string
\* start_time; 1970-01-01 is a Thursday (weekday 3, Monday being 0) of ISO week 1
TimeRow(s) ==
    [start_time |-> s, hour |-> s[4], day |-> s[3],
     week |-> ((s[3] + 2) \div 7) + 1, month |-> s[2], year |-> s[1],
     weekday |-> (s[3] + 2) % 7]

time_table(df) == { TimeRow(df[i].start_time) : i \in 1..Len(df) }

\* ------------------------------------------------ Songplay Fact Assembler
\* ON l.song = r.title; NULL = NULL is not true
NullSafeEquality(l, r) == l.song = r.title

JoinCondition(l, r) == l.song # NULL /\ r.title # NULL /\ l.song = r.title

SongplayRow(l, r) ==
    [start_time |-> l.start_time, userId |-> l.userId, level |-> l.level,
     song_id |-> r.song_id, artist_id |-> r.artist_id, sessionId |-> l.sessionId,
     location |-> l.location, userAgent |-> l.userAgent,
     year |-> l.start_time[1], month |-> l.start_time[2]]

\* the inner join, one row for each matching pair, in the order of the pairs
songplays_join(logs, songs) ==
    LET n == Len(songs)
        pairs == [k \in 1..(Len(logs) * n) |->
                    <<((k - 1) \div n) + 1, ((k - 1) % n) + 1>>]
        hits == SelectSeq(pairs, LAMBDA p : JoinCondition(logs[p[1]], songs[p[2]]))
    IN  [k \in 1..Len(hits) |-> SongplayRow(logs[hits[k][1]], songs[hits[k][2]])]

\* monotonically_increasing_id(): the partition in the upper 31 bits, the
\* row's position in its partition in the lower 33, held as the pair
RowNumberOnly(partition, row) == [partition |-> 0, row |-> row]

monotonically_increasing_id(partition, row) == [partition |-> partition, row |-> row]

\* the ways n rows lie in MaxPartitions partitions, each partition a run of
\* consecutive rows: cuts[p] rows lie in the partitions before partition p
Partitionings(n) ==
    { c \in [1..MaxPartitions -> 0..n] :
        /\ c[1] = 0
        /\ \A p \in 1..(MaxPartitions - 1) : c[p] <= c[p + 1] }

PartitionOf(cuts, i) ==
    CHOOSE p \in 1..MaxPartitions :
        cuts[p] < i /\ \A q \in 1..MaxPartitions : cuts[q] < i => q <= p

withColumn_songplay_id(rows, cuts) ==
    [i \in 1..Len(rows) |->
        LET p == PartitionOf(cuts, i)
        IN  [c \in DOMAIN rows[i] \cup {"songplay_id"} |->
                IF c = "songplay_id"
                THEN monotonically_increasing_id(p - 1, i - 1 - cuts[p])
                ELSE rows[i][c]]]

\* ------------------------------------------------------ Partitioned Writer
Tables == <<"songs", "artists", "users", "time", "songplays">>

WritePath(t) ==
    CASE t = "songs" -> "/songs/"
      [] t = "artists" -> "/artists/"
      [] t = "users" -> "/users/"
      [] t = "time" -> "/time/"
      [] t = "songplays" -> "/songplays/"

YearOnly(t) == IF t \in {"songs", "time", "songplays"} THEN <<"year">> ELSE <<>>

partitionBy(t) ==
    CASE t = "songs" -> <<"year", "artist_id">>
      [] t = "artists" -> <<>>
      [] t = "users" -> <<>>
      [] t = "time" -> <<"year", "month">>
      [] t = "songplays" -> <<"year", "month">>

ReadOp(src, dir, ok) ==
    [kind |-> "read", table |-> src, root |-> input_data, dir |-> dir,
     mode |-> "DROPMALFORMED", partitionBy |-> <<>>, ok |-> ok]

WriteOp(t, ok) ==
    [kind |-> "write", table |-> t, root |-> output_data, dir |-> WritePath(t),
     mode |-> "overwrite", partitionBy |-> partitionBy(t), ok |-> ok]

\* what lies under a table's path: rows, the rows of the last write that was
\* modelled; old, whether files from before the current run are still there
NoRows(t) == IF t = "songplays" THEN <<>> ELSE {}

Overwrite(cur, rows) == [old |-> FALSE, rows |-> rows]

\* where a step leaves off when the engine raises: no function of etl.py
\* catches, so the exception ends main
NextStep(p) ==
    CASE p = "read_song_data" -> "write_songs"
      [] p = "write_songs" -> "write_artists"
      [] p = "write_artists" -> "read_log_data"
      [] p = "read_log_data" -> "write_users"
      [] p = "write_users" -> "write_time"
      [] p = "write_time" -> "reread_song_data"
      [] p = "reread_song_data" -> "write_songplays"
      [] p = "write_songplays" -> "done"

SwallowAndGoOn(p) == NextStep(p)

Raise(p) == "aborted"

TableAt(p) ==
    CASE p = "write_songs" -> "songs"
      [] p = "write_artists" -> "artists"
      [] p = "write_users" -> "users"
      [] p = "write_time" -> "time"
      [] p = "write_songplays" -> "songplays"

\* --------------------------------------------------------------- the run
Init ==
    /\ \/ /\ catalog \in BagsOf(CatalogFiles, MaxCatalog)
          /\ log = <<>>
       \/ /\ catalog = <<SongFile(FALSE, SongJson("S1", "T1", "N1", 2000))>>
          /\ log \in BagsOf(UserLogLines, MaxLog)
       \/ /\ catalog \in BagsOf(JoinSongFiles, MaxCatalog)
          /\ log \in BagsOf(JoinLogLines, MaxLog)
    /\ input_data = "data/"
    /\ output_data \in {"data/", "lake/"}
    /\ \E had \in BOOLEAN :
          disk = [t \in Range(Tables) |-> [old |-> had, rows |-> NoRows(t)]]
    /\ prev = disk
    /\ pc = "read_song_data"
    /\ staging_songs = <<>>
    /\ staging_logs = <<>>
    /\ ops = <<>>
    /\ run = 1

Write(t, rows) ==
    /\ disk' = [disk EXCEPT ![t] = Overwrite(@, rows)]
    /\ ops' = Append(ops, WriteOp(t, TRUE))
    /\ pc' = NextStep(pc)
    /\ UNCHANGED <<catalog, log, input_data, output_data, staging_songs,
                   staging_logs, run, prev>>

\* process_song_data: read the song tree, register staging_songs
ReadSongData ==
    /\ pc = "read_song_data"
    /\ staging_songs' = get_song_data_df(catalog)
    /\ ops' = Append(ops, ReadOp("song_data", "/song_data/", TRUE))
    /\ pc' = NextStep(pc)
    /\ UNCHANGED <<catalog, log, input_data, output_data, staging_logs, disk,
                   run, prev>>

WriteSongs ==
    /\ pc = "write_songs"
    /\ Write("songs", songs_table(staging_songs))

WriteArtists ==
    /\ pc = "write_artists"
    /\ Write("artists", artists_table(staging_songs))

\* process_log_data: read the log tree, filter, enrich, register staging_logs
ReadLogData ==
    /\ pc = "read_log_data"
    /\ staging_logs' = enrich_log_data(FilterNextSong(get_log_data_df(log)))
    /\ ops' = Append(ops, ReadOp("log_data", "log-data/", TRUE))
    /\ pc' = NextStep(pc)
    /\ UNCHANGED <<catalog, log, input_data, output_data, staging_songs, disk,
                   run, prev>>

WriteUsers ==
    /\ pc = "write_users"
    /\ ~UdfRaises(staging_logs)
    /\ \E users \in dropDuplicates(users_join(staging_logs)) : Write("users", users)

WriteTime ==
    /\ pc = "write_time"
    /\ ~UdfRaises(staging_logs)
    /\ Write("time", time_table(staging_logs))

RereadSongData ==
    /\ pc = "reread_song_data"
    /\ staging_songs' = get_song_data_df(catalog)
    /\ ops' = Append(ops, ReadOp("song_data", "/song_data/", TRUE))
    /\ pc' = NextStep(pc)
    /\ UNCHANGED <<catalog, log, input_data, output_data, staging_logs, disk,
                   run, prev>>

WriteSongplays ==
    /\ pc = "write_songplays"
    /\ ~UdfRaises(staging_logs)
    /\ LET joined == songplays_join(staging_logs, staging_songs)
       IN  \E cuts \in Partitionings(Len(joined)) :
              Write("songplays", withColumn_songplay_id(joined, cuts))

\* the reader raises (path not found, permission denied)
ReadFails ==
    /\ pc \in {"read_song_data", "read_log_data", "reread_song_data"}
    /\ ops' = Append(ops, IF pc = "read_log_data"
                          THEN ReadOp("log_data", "log-data/", FALSE)
                          ELSE ReadOp("song_data", "/song_data/", FALSE))
    /\ pc' = Raise(pc)
    /\ UNCHANGED <<catalog, log, input_data, output_data, staging_songs,
                   staging_logs, disk, run, prev>>

\* the writer, or the job feeding it, raises: the path is left as it was or,
\* the overwrite having begun, without its files
WriteFails ==
    /\ pc \in {"write_songs", "write_artists", "write_users", "write_time",
               "write_songplays"}
    /\ \E left \in {disk[TableAt(pc)], Overwrite(disk[TableAt(pc)], NoRows(TableAt(pc)))} :
          disk' = [disk EXCEPT ![TableAt(pc)] = left]
    /\ ops' = Append(ops, WriteOp(TableAt(pc), FALSE))
    /\ pc' = Raise(pc)
    /\ UNCHANGED <<catalog, log, input_data, output_data, staging_songs,
                   staging_logs, run, prev>>

\* main is run a second time on the unchanged source trees
Rerun ==
    /\ pc = "done"
    /\ run = 1
    /\ run' = 2
    /\ prev' = disk
    /\ disk' = [t \in Range(Tables) |-> [disk[t] EXCEPT !.old = TRUE]]
    /\ pc' = "read_song_data"
    /\ staging_songs' = <<>>
    /\ staging_logs' = <<>>
    /\ ops' = <<>>
    /\ UNCHANGED <<catalog, log, input_data, output_data>>

Next ==
    \/ ReadSongData
    \/ WriteSongs
    \/ WriteArtists
    \/ ReadLogData
    \/ WriteUsers
    \/ WriteTime
    \/ RereadSongData
    \/ WriteSongplays
    \/ ReadFails
    \/ WriteFails

Spec == Init /\ [][Next]_vars

NextTwice == Next \/ Rerun

SpecTwice == Init /\ [][NextTwice]_vars

\* ====================================================== the properties
\* What the properties read off a state: the tables this run has written,
\* and the source records as the loader's contract admits them.
Written(t) ==
    \E i \in 1..Len(ops) : ops[i].kind = "write" /\ ops[i].table = t /\ ops[i].ok

CatalogRecords == { i \in 1..Len(catalog) : ~catalog[i].malformed }

NextSongEvents ==
    { i \in 1..Len(log) : ~log[i].malformed /\ log[i].json.page = "NextSong" }

OtherPageEvents ==
    { i \in 1..Len(log) : ~log[i].malformed /\ log[i].json.page # "NextSong" }

StripIds(rows) ==
    [i \in 1..Len(rows) |->
        [c \in DOMAIN rows[i] \ {"songplay_id"} |-> rows[i][c]]]

SameBag(a, b) ==
    /\ Len(a) = Len(b)
    /\ \A v \in Range(a) \cup Range(b) : Count(a, v) = Count(b, v)

C2_BothLevelsAppear ==
    Written("users") =>
        \A i, j \in NextSongEvents :
            (/\ log[i].json.userId = log[j].json.userId
             /\ log[i].json.userId # NULL
             /\ log[i].json.level # log[j].json.level)
            => \E r1, r2 \in disk["users"].rows :
                  /\ r1.userId = log[i].json.userId /\ r1.level = log[i].json.level
                  /\ r2.userId = log[j].json.userId /\ r2.level = log[j].json.level

\* ------------------------------------------------------------------- C3
\* C3: the SongplayFact rows are the inner join of the "NextSong" events with
\* the catalog on song = title: each row pairs an event with a catalog record
\* of exactly its song, an event whose song is NULL or in no record yields no
\* row, one whose song is in k records yields k rows.
MatchingPairs ==
    { p \in NextSongEvents \X CatalogRecords :
        /\ log[p[1]].json.song # NULL
        /\ catalog[p[2]].json.title # NULL
        /\ log[p[1]].json.song = catalog[p[2]].json.title }

FactOf(p) ==
    LET e == log[p[1]].json
        c == catalog[p[2]].json
        start == get_datetime(get_timestamp(e.ts))
    IN  [start_time |-> start, userId |-> e.userId, level |-> e.level,
         song_id |-> c.song_id, artist_id |-> c.artist_id,
         sessionId |-> e.sessionId, location |-> e.location,
         userAgent |-> e.userAgent, year |-> start[1], month |-> start[2]]

C3_SongplaysAreInnerJoin ==
    Written("songplays") =>
        LET F == StripIds(disk["songplays"].rows)
        IN  /\ Len(F) = Cardinality(MatchingPairs)
            /\ \A k \in 1..Len(F) : \E p \in MatchingPairs : F[k] = FactOf(p)
            /\ \A p \in MatchingPairs :
                  Count(F, FactOf(p))
                    = Cardinality({ q \in MatchingPairs : FactOf(q) = FactOf(p) })

\* an event whose song is the title of two records, one of them of year 0,
\* beside an event that matches none
C3_Witness ==
    /\ Written("songplays")
    /\ \E i \in NextSongEvents :
          /\ \E j, k \in CatalogRecords :
                /\ j # k /\ <<i, j>> \in MatchingPairs /\ <<i, k>> \in MatchingPairs
                /\ catalog[j].json.year = 0
    /\ \E i \in NextSongEvents : \A j \in CatalogRecords : <<i, j>> \notin MatchingPairs

\* ------------------------------------------------------------------- C4
\* C4: no two rows of SongDim share a song_id and no two rows of ArtistDim
\* share an artist_id, whatever the catalog.
C4_IdentifiersUnique ==
    /\ Written("songs") =>
          \A r1, r2 \in disk["songs"].rows : r1.song_id = r2.song_id => r1 = r2
    /\ Written("artists") =>
          \A r1, r2 \in disk["artists"].rows : r1.artist_id = r2.artist_id => r1 = r2

\* ------------------------------------------------------------------- C5
\* C5 as stated: a catalog record of year 0 has no row in SongDim and its
\* artist tuple in ArtistDim; every catalog record whose year is not 0 has
\* its tuple in SongDim.
C5_YearNotZeroKept ==
    (Written("songs") /\ Written("artists")) =>
        \A i \in CatalogRecords :
            LET c == catalog[i].json
            IN  /\ c.year = 0 => /\ SongRow(c) \notin disk["songs"].rows
                                 /\ ArtistRow(c) \in disk["artists"].rows
                /\ c.year # 0 => SongRow(c) \in disk["songs"].rows

\* C5 as amended: a catalog record of year 0 has no row in SongDim and its
\* artist tuple in ArtistDim; every catalog record whose year is present
\* (not NULL) and not 0 has its tuple in SongDim.
C5_YearPresentNotZeroKept ==
    (Written("songs") /\ Written("artists")) =>
        \A i \in CatalogRecords :
            LET c == catalog[i].json
            IN  /\ c.year = 0 => /\ SongRow(c) \notin disk["songs"].rows
                                 /\ ArtistRow(c) \in disk["artists"].rows
                /\ (c.year # 0 /\ c.year # NULL_INT) => SongRow(c) \in disk["songs"].rows

C5_Witness ==
    /\ Written("songs") /\ Written("artists")
    /\ \E i, j \in CatalogRecords :
          /\ catalog[i].json.year = 0
          /\ catalog[j].json.year = 2000
          /\ catalog[i].json.song_id = catalog[j].json.song_id

\* ------------------------------------------------------------------- C6
\* C6: an event whose page is not "NextSong" contributes to no UserDim,
\* TimeDim or SongplayFact row: the three tables are those of the log with
\* all such events removed, so such an event's ts is in no user's maximum.
LogWithoutOtherPages == SelectSeq(log, LAMBDA f : f.malformed \/ f.json.page = "NextSong")

StagingWithoutOtherPages ==
    enrich_log_data(FilterNextSong(get_log_data_df(LogWithoutOtherPages)))

C6_OtherPagesContributeNothing ==
    /\ Written("users") =>
          disk["users"].rows \in dropDuplicates(users_join(StagingWithoutOtherPages))
    /\ Written("time") => disk["time"].rows = time_table(StagingWithoutOtherPages)
    /\ Written("songplays") =>
          SameBag(StripIds(disk["songplays"].rows),
                  songplays_join(StagingWithoutOtherPages, get_song_data_df(catalog)))

\* an event of another page, later than all the "NextSong" events of its
\* user and with a song of the catalog, went through the whole run
C6_Witness ==
    /\ pc = "done"
    /\ \E i \in OtherPageEvents :
          /\ \E j \in NextSongEvents : log[j].json.userId = log[i].json.userId
          /\ \A j \in NextSongEvents :
                log[j].json.userId = log[i].json.userId => log[j].json.ts < log[i].json.ts
          /\ \E c \in CatalogRecords : catalog[c].json.title = log[i].json.song

\* ------------------------------------------------------------------- C7
\* C7: a second run on the unchanged sources leaves the same rows in songs,
\* artists, users and time, and the same songplays apart from songplay_id.
C7_SecondRunSameOutput ==
    (run = 2 /\ pc = "done") =>
        /\ \A t \in {"songs", "artists", "users", "time"} : disk[t].rows = prev[t].rows
        /\ SameBag(StripIds(disk["songplays"].rows), StripIds(prev["songplays"].rows))

\* ------------------------------------------------------------------- C8
\* C8: within one run no two SongplayFact rows have the same songplay_id.
C8_SongplayIdUnique ==
    Written("songplays") =>
        LET F == disk["songplays"].rows
        IN  \A i, j \in 1..Len(F) : i # j => F[i].songplay_id # F[j].songplay_id

\* two rows equal in every projected column, and two rows of one event that
\* matched two catalog records
C8_Witness ==
    /\ Written("songplays")
    /\ LET F == StripIds(disk["songplays"].rows)
       IN  /\ \E i, j \in 1..Len(F) : i # j /\ F[i] = F[j]
           /\ \E i, j \in 1..Len(F) :
                 /\ F[i].song_id # F[j].song_id
                 /\ [F[i] EXCEPT !.song_id = F[j].song_id] = F[j]

\* ------------------------------------------------------------------- C9
\* C9: the writes of a run go out in the order songs, artists, users, time,
\* songplays, each table at most once, each to its own path under the output
\* root, in overwrite mode, with the partition columns songs (year,
\* artist_id), artists none, users none, time (year, month), songplays
\* (year, month); and no read is of a path written earlier in the run.
TableOrder(t) == CHOOSE k \in 1..Len(Tables) : Tables[k] = t

Writes == { i \in 1..Len(ops) : ops[i].kind = "write" }

C9_WritesInOrderOverwrite ==
    /\ \A i \in Writes :
          /\ ops[i].table \in Range(Tables)
          /\ ops[i].root = output_data
          /\ ops[i].dir = "/" \o ops[i].table \o "/"
          /\ ops[i].mode = "overwrite"
          /\ ops[i].partitionBy =
                (CASE ops[i].table = "songs" -> <<"year", "artist_id">>
                   [] ops[i].table \in {"time", "songplays"} -> <<"year", "month">>
                   [] OTHER -> <<>>)
          /\ ops[i].ok => ~disk[ops[i].table].old
    /\ \A i, j \in Writes : i < j => TableOrder(ops[i].table) < TableOrder(ops[j].table)
    /\ \A i, j \in 1..Len(ops) :
          (i < j /\ ops[i].kind = "write" /\ ops[j].kind = "read")
          => <<ops[i].root, ops[i].dir>> # <<ops[j].root, ops[j].dir>>
    /\ pc = "done" => [k \in 1..Len(Tables) |-> Tables[k]]
                        = [k \in 1..Len(Tables) |->
                              SelectSeq(ops, LAMBDA o : o.kind = "write")[k].table]

\* a whole run over earlier output, with the output root the input root
C9_Witness ==
    /\ pc = "done"
    /\ Cardinality(Writes) = 5
    /\ output_data = input_data
    /\ \A t \in Range(Tables) : prev[t].old /\ ~disk[t].old

\* ------------------------------------------------------------------ C10
\* C10: a failed read or write ends the run: it is the run's last operation,
\* no table is written twice, the tables written before it stay overwritten
\* and the tables after it in the order are as they were before the run.
C10_FailureIsFatal ==
    /\ \A i \in 1..Len(ops) : ~ops[i].ok => (i = Len(ops) /\ pc = "aborted")
    /\ pc = "aborted" => (ops # <<>> /\ ~ops[Len(ops)].ok)
    /\ \A i, j \in Writes : i # j => ops[i].table # ops[j].table
    /\ \A t \in Range(Tables) :
          /\ Written(t) => ~disk[t].old
          /\ (\A i \in Writes : ops[i].table # t) => disk[t] = prev[t]

\* the write of users failed, after songs and artists replaced earlier output
C10_Witness ==
    /\ pc = "aborted"
    /\ Written("songs") /\ Written("artists")
    /\ prev["songs"].old /\ prev["time"].old
    /\ ops[Len(ops)].kind = "write" /\ ops[Len(ops)].table = "users"
    /\ disk["songs"].rows # {}

====
